---- MODULE Spec2Model ----
(***************************************************************************)
(* Model of the IntervalTimePicker component (IntervalTimePicker.tsx) and  *)
(* of the demo application that owns its state (App).                      *)
(*                                                                         *)
(* A state is one render of the component: the props the application       *)
(* passes in (interval, selectedPreset, bounds, show flags, presets), the  *)
(* DOM focus among the three inputs, and a record of the last UI event     *)
(* together with the callbacks that event invoked, in order.               *)
(***************************************************************************)
EXTENDS Integers, Sequences, FiniteSets, TLC

VARIABLES
    interval,          \* App state: const [interval, setInterval] = useState(..)
    selectedPreset,    \* App state: const [selectedPreset, setSelectedPreset]
    minInterval,       \* prop minInterval
    maxInterval,       \* prop maxInterval
    showHours,         \* prop showHours
    showMinutes,       \* prop showMinutes
    showSeconds,       \* prop showSeconds
    presets,           \* prop presets
    hasOnPresetChange, \* whether the optional prop onPresetChange is supplied
    focus,             \* which IntervalInput holds DOM focus, or "none"
    calls,             \* callbacks invoked by the last event, in call order
    last,              \* the last event: its kind, its field, the preset key
    initInRange,       \* history: the initial interval was within the bounds
    fnResult           \* result of the last pure-function application (SpecFn)

vars == <<interval, selectedPreset, minInterval, maxInterval, showHours,
          showMinutes, showSeconds, presets, hasOnPresetChange, focus, calls,
          last, initInRange, fnResult>>

config == <<minInterval, maxInterval, showHours, showMinutes, showSeconds,
            presets, hasOnPresetChange, initInRange>>

-----------------------------------------------------------------------------
(* Bounds of the model *)

MaxInitHours == 2

MaxFnHours == 1

-----------------------------------------------------------------------------
(* Values *)

Fields == <<"hours", "minutes", "seconds">>

FieldSet == {"hours", "minutes", "seconds"}

(* the position of a field in the row of inputs, left to right *)
FieldIndex(f) == CHOOSE i \in 1..3 : Fields[i] = f

Dur(h, m, s) == [hours |-> h, minutes |-> m, seconds |-> s]

NoPreset == "undefined"

DigitChars == <<"0", "1", "2", "3", "4", "5", "6", "7", "8", "9">>

DigitKeys == {DigitChars[i] : i \in 1..10}

DigitValue(c) == (CHOOSE i \in 1..10 : DigitChars[i] = c) - 1

Preset(v, d) == [value |-> v, duration |-> d]

-----------------------------------------------------------------------------
(* Pure functions of IntervalTimePicker.tsx *)

durationSchema(d) ==
    /\ d.hours >= 0
    /\ d.minutes >= 0 /\ d.minutes <= 59
    /\ d.seconds >= 0 /\ d.seconds <= 59

durationToMs(duration) ==
    duration.hours * 3600000 + duration.minutes * 60000 + duration.seconds * 1000

(* variants of getNextValidDuration with one comparison changed *)
ClampWithoutMaxSide(duration, minI, maxI) ==
    IF durationToMs(duration) < durationToMs(minI) THEN minI ELSE duration

ClampWithoutMinSide(duration, minI, maxI) ==
    IF durationToMs(duration) > durationToMs(maxI) THEN maxI ELSE duration

ClampAtEquality(duration, minI, maxI) ==
    IF durationToMs(duration) <= durationToMs(minI) THEN minI
    ELSE IF durationToMs(duration) >= durationToMs(maxI) THEN maxI
    ELSE duration

(* variant of getNextValidDuration that returns the opposite bound *)
ClampToOppositeBound(duration, minI, maxI) ==
    IF durationToMs(duration) < durationToMs(minI) THEN maxI
    ELSE IF durationToMs(duration) > durationToMs(maxI) THEN minI
    ELSE duration

getNextValidDuration(duration, minI, maxI) ==
    LET durationMs    == durationToMs(duration)
        minIntervalMs == durationToMs(minI)
        maxIntervalMs == durationToMs(maxI)
    IN  IF durationMs < minIntervalMs THEN minI
        ELSE IF durationMs > maxIntervalMs THEN maxI
        ELSE duration

(* variant of getMaxValueForField that does not look at the minutes *)
MaxValueIgnoringMinutes(field, currentDuration, maxI) ==
    IF field = "hours" THEN maxI.hours
    ELSE IF currentDuration.hours = maxI.hours
         THEN IF field = "minutes" THEN maxI.minutes ELSE maxI.seconds
         ELSE 59

getMaxValueForField(field, currentDuration, maxI) ==
    IF field = "hours" THEN maxI.hours
    ELSE IF currentDuration.hours = maxI.hours
         THEN IF field = "minutes" THEN maxI.minutes
              ELSE IF field = "seconds" /\ currentDuration.minutes = maxI.minutes
                   THEN maxI.seconds
                   ELSE 59
         ELSE 59

(* variant of getMinValueForField with the fallback of getMaxValueForField *)
MinValueFallingBackTo59(field, currentDuration, minI) ==
    IF field = "hours" THEN minI.hours
    ELSE IF currentDuration.hours = minI.hours
         THEN IF field = "minutes" THEN minI.minutes
              ELSE IF field = "seconds" /\ currentDuration.minutes = minI.minutes
                   THEN minI.seconds
                   ELSE 59
         ELSE 59

getMinValueForField(field, currentDuration, minI) ==
    IF field = "hours" THEN minI.hours
    ELSE IF currentDuration.hours = minI.hours
         THEN IF field = "minutes" THEN minI.minutes
              ELSE IF field = "seconds" /\ currentDuration.minutes = minI.minutes
                   THEN minI.seconds
                   ELSE 0
         ELSE 0

(* Number.prototype.toString for integers: a sequence of one-character strings *)
RECURSIVE NatToString(_)
NatToString(n) ==
    IF n < 10 THEN <<DigitChars[n + 1]>>
    ELSE NatToString(n \div 10) \o <<DigitChars[(n % 10) + 1]>>

toString(n) == IF n < 0 THEN <<"-">> \o NatToString(0 - n) ELSE NatToString(n)

(* String.prototype.padStart(2, '0') *)
padStart2(s) == IF Len(s) < 2 THEN <<"0">> \o s ELSE s

formatNumber(value) == padStart2(toString(value))

(* parseInt(text, 10): leading blanks, an optional sign, then the longest   *)
(* prefix of decimal digits; NaN when there is no digit.                    *)
RECURSIVE SkipBlanks(_)
SkipBlanks(s) ==
    IF s # <<>> /\ Head(s) = " " THEN SkipBlanks(Tail(s)) ELSE s

RECURSIVE ParseDigits(_, _, _)
ParseDigits(s, acc, seen) ==
    IF s # <<>> /\ Head(s) \in DigitKeys
    THEN ParseDigits(Tail(s), acc * 10 + DigitValue(Head(s)), TRUE)
    ELSE [nan |-> ~seen, val |-> acc]

parseInt(s) ==
    LET t      == SkipBlanks(s)
        signed == t # <<>> /\ Head(t) \in {"-", "+"}
        neg    == t # <<>> /\ Head(t) = "-"
        r      == ParseDigits(IF signed THEN Tail(t) ELSE t, 0, FALSE)
    IN  [nan |-> r.nan, val |-> IF neg THEN 0 - r.val ELSE r.val]

-----------------------------------------------------------------------------
(* The render of IntervalTimePicker: values derived from the current props *)

isCustomMode == selectedPreset = "custom"

(* variant of showCustomFields without the empty-list disjunct *)
ShowCustomFieldsInCustomModeOnly == isCustomMode

showCustomFields == isCustomMode \/ Len(presets) = 0

lastField ==
    IF showSeconds THEN "seconds" ELSE IF showMinutes THEN "minutes" ELSE "hours"

show(f) ==
    IF f = "hours" THEN showHours
    ELSE IF f = "minutes" THEN showMinutes
    ELSE showSeconds

(* the IntervalInput of field f is mounted *)
Rendered(f) == showCustomFields /\ show(f)

(* props handed to the IntervalInput of field f *)
value(f) == interval[f]

min(f) == getMinValueForField(f, interval, minInterval)

max(f) == getMaxValueForField(f, interval, maxInterval)

isLastField(f) == IF f = "seconds" THEN TRUE ELSE lastField = f

hasOnLeftFocus(f) == f # "hours"

hasOnRightFocus(f) == f # "seconds"

(* focus after the onLeftFocus / onRightFocus closure of field f has run *)
onLeftFocus(f) ==
    IF f = "minutes" THEN (IF showHours THEN "hours" ELSE focus)
    ELSE IF f = "seconds" THEN (IF showMinutes THEN "minutes" ELSE focus)
    ELSE focus

onRightFocus(f) ==
    IF f = "hours" THEN (IF showMinutes THEN "minutes" ELSE focus)
    ELSE IF f = "minutes" THEN (IF showSeconds THEN "seconds" ELSE focus)
    ELSE focus

(* variant of adjustedInterval with the show conditions the wrong way round *)
AdjustedIntervalInverted(newInterval) ==
    Dur(IF showHours THEN 0 ELSE newInterval.hours,
        IF showMinutes THEN 0 ELSE newInterval.minutes,
        IF showSeconds THEN 0 ELSE newInterval.seconds)

adjustedInterval(newInterval) ==
    Dur(IF showHours THEN newInterval.hours ELSE 0,
        IF showMinutes THEN newInterval.minutes ELSE 0,
        IF showSeconds THEN newInterval.seconds ELSE 0)

(* variant of handleIntervalChange whose catch branch clamps the previous   *)
(* Duration before emitting it                                             *)
HandleIntervalChangeClampingPrevious(newInterval) ==
    LET adjusted == adjustedInterval(newInterval)
    IN  IF durationSchema(adjusted)
        THEN getNextValidDuration(adjusted, minInterval, maxInterval)
        ELSE getNextValidDuration(interval, minInterval, maxInterval)

(* handleIntervalChange: the Duration it passes to setInterval *)
handleIntervalChange(newInterval) ==
    LET adjusted == adjustedInterval(newInterval)
    IN  IF durationSchema(adjusted)
        THEN getNextValidDuration(adjusted, minInterval, maxInterval)
        ELSE interval

setHours(hours) == handleIntervalChange([interval EXCEPT !.hours = hours])

setMinutes(minutes) == handleIntervalChange([interval EXCEPT !.minutes = minutes])

setSeconds(seconds) == handleIntervalChange([interval EXCEPT !.seconds = seconds])

(* the onChange prop of the IntervalInput of field f *)
onChange(f, v) ==
    IF f = "hours" THEN setHours(v)
    ELSE IF f = "minutes" THEN setMinutes(v)
    ELSE setSeconds(v)

RECURSIVE FindFrom(_, _, _)
FindFrom(list, key, i) ==
    IF i > Len(list) THEN <<>>
    ELSE IF list[i].value = key THEN <<list[i]>>
    ELSE FindFrom(list, key, i + 1)

(* presets.find((p) => p.value === value): <<>> for undefined *)
find(list, key) == FindFrom(list, key, 1)

-----------------------------------------------------------------------------
(* The record of an event *)

NoResult == [fn |-> "none", field |-> "none", out |-> <<>>]

Call(fn, arg) == [fn |-> fn, arg |-> arg]

Event(kind, f, key) == [kind |-> kind, field |-> f, key |-> key]

CommitCalls(f, v) ==
    <<Call("onChange", [field |-> f, value |-> v]),
      Call("setInterval", onChange(f, v))>>

-----------------------------------------------------------------------------
(* Inputs *)

OtherKeys == {"Enter"}

Texts ==
    { <<"0">>, <<"3", "0">>, <<"6", "0">>, <<>>, <<"1", "x">>, <<"-", "1">> }

(* the presets of the demo ("1", "2", "custom") and three more: one with  *)
(* nonzero minutes and seconds, one of seconds only, one failing the schema *)
DemoPresets ==
    << Preset("1", <<Dur(1, 0, 0)>>),
       Preset("2", <<Dur(6, 0, 0)>>),
       Preset("m", <<Dur(0, 59, 59)>>),
       Preset("s", <<Dur(0, 0, 45)>>),
       Preset("bad", <<Dur(0, 60, 0)>>),
       Preset("custom", <<>>) >>

PresetLists == { <<>>, DemoPresets }

(* IntervalPreset makes duration optional on every entry, the one whose    *)
(* value is 'custom' included: a list in which that entry carries one      *)
CustomDurationPresets ==
    << Preset("1", <<Dur(1, 0, 0)>>),
       Preset("custom", <<Dur(0, 1, 0)>>) >>

PresetKeys == {"1", "2", "m", "s", "bad", "custom", "other"}

BoundsPairs ==
    { <<Dur(0, 59, 58), Dur(1, 0, 1)>>,
      <<Dur(0, 0, 0), Dur(0, 1, 30)>>,
      <<Dur(1, 0, 1), Dur(0, 59, 58)>> }

InitIntervals ==
    { Dur(h, m, s) : h \in 0..MaxInitHours, m \in {0, 1, 59}, s \in {0, 30, 59} }

WithinBounds(d) ==
    /\ durationToMs(minInterval) <= durationToMs(d)
    /\ durationToMs(d) <= durationToMs(maxInterval)

-----------------------------------------------------------------------------
(* Initial state: the first render *)

Init ==
    /\ \E b \in BoundsPairs : minInterval = b[1] /\ maxInterval = b[2]
    /\ showHours \in BOOLEAN
    /\ showMinutes \in BOOLEAN
    /\ showSeconds \in BOOLEAN
    /\ presets \in PresetLists
    /\ hasOnPresetChange \in (IF presets = <<>> THEN {FALSE} ELSE BOOLEAN)
    /\ selectedPreset \in
           (IF presets = <<>> THEN {NoPreset} ELSE {NoPreset, "custom", "1"})
    /\ interval \in InitIntervals
    /\ initInRange = WithinBounds(interval)
    /\ focus = "none"
    /\ calls = <<>>
    /\ last = Event("init", "none", "")
    /\ fnResult = NoResult

-----------------------------------------------------------------------------
(* Events *)

(* the user moves DOM focus into a mounted input (click, Tab order) *)
FocusField(f) ==
    /\ Rendered(f)
    /\ focus # f
    /\ focus' = f
    /\ calls' = <<>>
    /\ last' = Event("Focus", f, "")
    /\ UNCHANGED <<interval, selectedPreset, config, fnResult>>

(* handleKeyDown, e.key === 'Tab' or a key no branch handles *)
KeyIgnored(f, key) ==
    /\ Rendered(f) /\ focus = f
    /\ calls' = <<>>
    /\ last' = Event("KeyIgnored", f, "")
    /\ UNCHANGED <<interval, selectedPreset, focus, config, fnResult>>

KeyArrowLeft(f) ==
    /\ Rendered(f) /\ focus = f
    /\ IF hasOnLeftFocus(f)
       THEN /\ focus' = onLeftFocus(f)
            /\ calls' = <<Call("onLeftFocus", f)>>
       ELSE /\ focus' = focus
            /\ calls' = <<>>
    /\ last' = Event("ArrowLeft", f, "")
    /\ UNCHANGED <<interval, selectedPreset, config, fnResult>>

(* variant of the ArrowRight branch that never calls onRightFocus *)
KeyArrowRightStaying(f) ==
    /\ Rendered(f) /\ focus = f
    /\ focus' = focus
    /\ calls' = <<>>
    /\ last' = Event("ArrowRight", f, "")
    /\ UNCHANGED <<interval, selectedPreset, config, fnResult>>

KeyArrowRight(f) ==
    /\ Rendered(f) /\ focus = f
    /\ IF hasOnRightFocus(f) /\ ~isLastField(f)
       THEN /\ focus' = onRightFocus(f)
            /\ calls' = <<Call("onRightFocus", f)>>
       ELSE /\ focus' = focus
            /\ calls' = <<>>
    /\ last' = Event("ArrowRight", f, "")
    /\ UNCHANGED <<interval, selectedPreset, config, fnResult>>

(* variant of the ArrowUp branch that stops at max instead of wrapping *)
KeyArrowUpSaturating(f) ==
    /\ Rendered(f) /\ focus = f
    /\ LET newValue == value(f) + 1
           v        == IF newValue > max(f) THEN max(f) ELSE newValue
       IN  /\ interval' = onChange(f, v)
           /\ calls' = CommitCalls(f, v)
    /\ last' = Event("ArrowUp", f, "")
    /\ UNCHANGED <<selectedPreset, focus, config, fnResult>>

KeyArrowUp(f) ==
    /\ Rendered(f) /\ focus = f
    /\ LET newValue == value(f) + 1
           v        == IF newValue > max(f) THEN min(f) ELSE newValue
       IN  /\ interval' = onChange(f, v)
           /\ calls' = CommitCalls(f, v)
    /\ last' = Event("ArrowUp", f, "")
    /\ UNCHANGED <<selectedPreset, focus, config, fnResult>>

(* variant of the ArrowDown branch that does not wrap below min *)
KeyArrowDownUnwrapped(f) ==
    /\ Rendered(f) /\ focus = f
    /\ LET v == value(f) - 1
       IN  /\ interval' = onChange(f, v)
           /\ calls' = CommitCalls(f, v)
    /\ last' = Event("ArrowDown", f, "")
    /\ UNCHANGED <<selectedPreset, focus, config, fnResult>>

KeyArrowDown(f) ==
    /\ Rendered(f) /\ focus = f
    /\ LET newValue == value(f) - 1
           v        == IF newValue < min(f) THEN max(f) ELSE newValue
       IN  /\ interval' = onChange(f, v)
           /\ calls' = CommitCalls(f, v)
    /\ last' = Event("ArrowDown", f, "")
    /\ UNCHANGED <<selectedPreset, focus, config, fnResult>>

(* handleKeyDown, /^[0-9]$/.test(e.key): all it does to the component *)
KeyDigitStep(f, key) ==
    /\ Rendered(f) /\ focus = f
    /\ LET currentStr == padStart2(toString(value(f)))
           newStr     == Tail(currentStr) \o <<key>>
           newValue   == parseInt(newStr).val
           digit      == parseInt(<<key>>).val
       IN  IF newValue >= min(f) /\ newValue <= max(f)
           THEN /\ interval' = onChange(f, newValue)
                /\ IF hasOnRightFocus(f) /\ ~isLastField(f)
                   THEN /\ focus' = onRightFocus(f)
                        /\ calls' = CommitCalls(f, newValue)
                                      \o <<Call("onRightFocus", f)>>
                   ELSE /\ focus' = focus
                        /\ calls' = CommitCalls(f, newValue)
           ELSE IF digit >= min(f) /\ digit <= max(f)
           THEN /\ interval' = onChange(f, digit)
                /\ focus' = focus
                /\ calls' = CommitCalls(f, digit)
           ELSE /\ interval' = interval
                /\ focus' = focus
                /\ calls' = <<>>
    /\ last' = Event("Digit", f, "")
    /\ UNCHANGED <<selectedPreset, config>>

KeyDigit(f, key) == KeyDigitStep(f, key) /\ UNCHANGED fnResult

(* variant of the <Input> onChange handler without the val >= min test *)
InputChangeWithoutMinTest(f, text) ==
    /\ Rendered(f) /\ focus = f
    /\ LET val == parseInt(text)
       IN  IF ~val.nan /\ val.val <= max(f)
           THEN /\ interval' = onChange(f, val.val)
                /\ calls' = CommitCalls(f, val.val)
           ELSE /\ interval' = interval
                /\ calls' = <<>>
    /\ last' = Event("InputChange", f, "")
    /\ UNCHANGED <<selectedPreset, focus, config, fnResult>>

(* the onChange handler of the <Input>: a direct replacement of its text *)
InputChange(f, text) ==
    /\ Rendered(f) /\ focus = f
    /\ LET val == parseInt(text)
       IN  IF ~val.nan /\ val.val >= min(f) /\ val.val <= max(f)
           THEN /\ interval' = onChange(f, val.val)
                /\ calls' = CommitCalls(f, val.val)
           ELSE /\ interval' = interval
                /\ calls' = <<>>
    /\ last' = Event("InputChange", f, "")
    /\ UNCHANGED <<selectedPreset, focus, config, fnResult>>

(* variant of handlePresetChange that notifies the application before it   *)
(* applies the preset's duration                                           *)
PresetChangeNotifyingFirst(key) ==
    /\ Len(presets) > 0
    /\ LET preset == find(presets, key)
           emits  == preset # <<>> /\ preset[1].duration # <<>>
           first  == IF emits
                     THEN <<Call("setInterval",
                                 handleIntervalChange(preset[1].duration[1]))>>
                     ELSE <<>>
       IN  /\ interval' = IF emits
                          THEN handleIntervalChange(preset[1].duration[1])
                          ELSE interval
           /\ IF hasOnPresetChange
              THEN /\ calls' = <<Call("onPresetChange", key)>> \o first
                   /\ selectedPreset' = key
              ELSE /\ calls' = first
                   /\ selectedPreset' = selectedPreset
    /\ focus' = "none"
    /\ last' = Event("Preset", "none", key)
    /\ UNCHANGED <<config, fnResult>>

(* variant of handlePresetChange that submits the current Duration when    *)
(* the preset found carries none                                           *)
PresetChangeAlwaysEmitting(key) ==
    /\ Len(presets) > 0
    /\ LET preset == find(presets, key)
           emits  == preset # <<>> /\ preset[1].duration # <<>>
           first  == <<Call("setInterval",
                            handleIntervalChange(IF emits
                                                 THEN preset[1].duration[1]
                                                 ELSE interval))>>
       IN  /\ interval' = first[1].arg
           /\ IF hasOnPresetChange
              THEN /\ calls' = first \o <<Call("onPresetChange", key)>>
                   /\ selectedPreset' = key
              ELSE /\ calls' = first
                   /\ selectedPreset' = selectedPreset
    /\ focus' = "none"
    /\ last' = Event("Preset", "none", key)
    /\ UNCHANGED <<config, fnResult>>

(* handlePresetChange, the onValueChange of the RadioGroup; the radio item *)
(* that was activated holds the DOM focus afterwards                       *)
PresetChange(key) ==
    /\ Len(presets) > 0
    /\ LET preset == find(presets, key)
           emits  == preset # <<>> /\ preset[1].duration # <<>>
           first  == IF emits
                     THEN <<Call("setInterval",
                                 handleIntervalChange(preset[1].duration[1]))>>
                     ELSE <<>>
       IN  /\ interval' = IF emits
                          THEN handleIntervalChange(preset[1].duration[1])
                          ELSE interval
           /\ IF hasOnPresetChange
              THEN /\ calls' = first \o <<Call("onPresetChange", key)>>
                   /\ selectedPreset' = key
              ELSE /\ calls' = first
                   /\ selectedPreset' = selectedPreset
    /\ focus' = "none"
    /\ last' = Event("Preset", "none", key)
    /\ UNCHANGED <<config, fnResult>>

Next ==
    \/ \E f \in FieldSet : FocusField(f)
    \/ \E f \in FieldSet : \E key \in {"Tab"} \cup OtherKeys : KeyIgnored(f, key)
    \/ \E f \in FieldSet : KeyArrowLeft(f)
    \/ \E f \in FieldSet : KeyArrowRight(f)
    \/ \E f \in FieldSet : KeyArrowUp(f)
    \/ \E f \in FieldSet : KeyArrowDown(f)
    \/ \E f \in FieldSet : \E key \in DigitKeys : KeyDigit(f, key)
    \/ \E f \in FieldSet : \E text \in Texts : InputChange(f, text)
    \/ \E key \in PresetKeys : PresetChange(key)

Spec == Init /\ [][Next]_vars

-----------------------------------------------------------------------------
(* The pure functions applied to arbitrary arguments: interval, minInterval *)
(* and maxInterval hold the arguments, fnResult the value returned.        *)

FnDurations ==
    { Dur(h, m, s) : h \in 0..MaxFnHours, m \in {0, 59, 60}, s \in {0, 59} }

InitFn ==
    /\ interval \in FnDurations
    /\ minInterval \in FnDurations
    /\ maxInterval \in FnDurations
    /\ showHours = TRUE
    /\ showMinutes = TRUE
    /\ showSeconds = TRUE
    /\ presets = <<>>
    /\ hasOnPresetChange = FALSE
    /\ selectedPreset = NoPreset
    /\ initInRange = WithinBounds(interval)
    /\ focus = "none"
    /\ calls = <<>>
    /\ last = Event("init", "none", "")
    /\ fnResult = NoResult

ApplyGetNextValidDuration ==
    /\ fnResult' = [fn |-> "getNextValidDuration", field |-> "none",
                    out |-> getNextValidDuration(interval, minInterval,
                                                 maxInterval)]
    /\ UNCHANGED <<interval, selectedPreset, focus, calls, last, config>>

ApplyFieldBounds(f) ==
    /\ fnResult' = [fn |-> "fieldBounds", field |-> f,
                    out |-> [min |-> getMinValueForField(f, interval,
                                                         minInterval),
                             max |-> getMaxValueForField(f, interval,
                                                         maxInterval)]]
    /\ UNCHANGED <<interval, selectedPreset, focus, calls, last, config>>

NextFn ==
    \/ ApplyGetNextValidDuration
    \/ \E f \in FieldSet : ApplyFieldBounds(f)

SpecFn == InitFn /\ [][NextFn]_vars

-----------------------------------------------------------------------------
(* The component with every field shown and a preset list given, the list  *)
(* of the demo or one whose 'custom' entry carries a duration.             *)

InitCustom ==
    /\ \E b \in BoundsPairs : minInterval = b[1] /\ maxInterval = b[2]
    /\ showHours = TRUE
    /\ showMinutes = TRUE
    /\ showSeconds = TRUE
    /\ presets \in {DemoPresets, CustomDurationPresets}
    /\ hasOnPresetChange \in BOOLEAN
    /\ selectedPreset \in {NoPreset, "custom", "1"}
    /\ interval \in InitIntervals
    /\ initInRange = WithinBounds(interval)
    /\ focus = "none"
    /\ calls = <<>>
    /\ last = Event("init", "none", "")
    /\ fnResult = NoResult

SpecCustom == InitCustom /\ [][Next]_vars

-----------------------------------------------------------------------------
(* Digit entry with a record of the keystroke before: fnResult holds the   *)
(* field that handled the last digit, the digit, the field's value and     *)
(* bounds when it arrived and whether it made the field commit.            *)

RollBoundsPairs == BoundsPairs \cup { <<Dur(1, 0, 3), Dur(1, 0, 59)>> }

InitRoll ==
    /\ \E b \in RollBoundsPairs : minInterval = b[1] /\ maxInterval = b[2]
    /\ showHours \in BOOLEAN
    /\ showMinutes \in BOOLEAN
    /\ showSeconds \in BOOLEAN
    /\ presets = <<>>
    /\ hasOnPresetChange = FALSE
    /\ selectedPreset = NoPreset
    /\ interval \in InitIntervals
    /\ initInRange = WithinBounds(interval)
    /\ focus = "none"
    /\ calls = <<>>
    /\ last = Event("init", "none", "")
    /\ fnResult = NoResult

RollDigit(f, key) ==
    /\ KeyDigitStep(f, key)
    /\ fnResult' = [fn |-> "digit", field |-> f,
                    out |-> [digit |-> DigitValue(key),
                             value |-> value(f),
                             min |-> min(f), max |-> max(f),
                             committed |-> calls' # <<>>]]

NextRoll ==
    \/ \E f \in FieldSet : FocusField(f)
    \/ \E f \in FieldSet : \E key \in DigitKeys : RollDigit(f, key)

SpecRoll == InitRoll /\ [][NextRoll]_vars

-----------------------------------------------------------------------------
(* A user who steers the Duration to a target with ArrowUp, ArrowLeft and  *)
(* ArrowRight only: every field shown, no presets, ordered bounds, the     *)
(* focus in some field, any in-range Duration to start from and any        *)
(* in-range target, which fnResult holds. The user goes to the most        *)
(* significant field that differs from the target and presses ArrowUp      *)
(* there, and keeps pressing keys until the target is shown.               *)

DriveBoundsPairs ==
    { b \in BoundsPairs : durationToMs(b[1]) <= durationToMs(b[2]) }

InRangeDurations ==
    { d \in { Dur(h, m, s) : h \in minInterval.hours..maxInterval.hours,
                              m \in 0..59, s \in 0..59 } : WithinBounds(d) }

InitDrive ==
    /\ \E b \in DriveBoundsPairs : minInterval = b[1] /\ maxInterval = b[2]
    /\ showHours = TRUE
    /\ showMinutes = TRUE
    /\ showSeconds = TRUE
    /\ presets = <<>>
    /\ hasOnPresetChange = FALSE
    /\ selectedPreset = NoPreset
    /\ interval \in InRangeDurations
    /\ initInRange = WithinBounds(interval)
    /\ focus \in FieldSet
    /\ calls = <<>>
    /\ last = Event("init", "none", "")
    /\ \E t \in InRangeDurations :
          fnResult = [fn |-> "target", field |-> "none", out |-> t]

(* the most significant field in which the Duration differs from the target *)
Mismatch ==
    CHOOSE f \in FieldSet :
        /\ interval[f] # fnResult.out[f]
        /\ \A g \in FieldSet :
              FieldIndex(g) < FieldIndex(f) => interval[g] = fnResult.out[g]

DriveUp ==
    /\ interval # fnResult.out
    /\ focus = Mismatch
    /\ KeyArrowUp(focus)

DriveRight ==
    /\ interval # fnResult.out
    /\ FieldIndex(focus) < FieldIndex(Mismatch)
    /\ KeyArrowRight(focus)

DriveLeft ==
    /\ interval # fnResult.out
    /\ FieldIndex(focus) > FieldIndex(Mismatch)
    /\ KeyArrowLeft(focus)

NextDrive == DriveUp \/ DriveRight \/ DriveLeft

SpecDrive == InitDrive /\ [][NextDrive]_vars /\ WF_vars(NextDrive)

-----------------------------------------------------------------------------
(* Vocabulary of the properties *)

BoundsOrdered == durationToMs(minInterval) <= durationToMs(maxInterval)

BoundsSchemaValid == durationSchema(minInterval) /\ durationSchema(maxInterval)

AllShown == showHours /\ showMinutes /\ showSeconds

(* the Durations passed to setInterval by the last event *)
Emitted == { calls[i].arg : i \in { j \in 1..Len(calls) : calls[j].fn = "setInterval" } }

(* the last event made field f commit the value x through its onChange *)
Committed(cs, f, x) ==
    /\ Len(cs) >= 2
    /\ cs[1].fn = "onChange"
    /\ cs[1].arg.field = f
    /\ cs[1].arg.value = x
    /\ cs[2].fn = "setInterval"
    /\ \A i \in 2..Len(cs) : cs[i].fn # "onChange"

-----------------------------------------------------------------------------
(* C1: with total(minInterval) <= total(maxInterval) and an initial        *)
(* Duration within the bounds, the Duration held by the application is     *)
(* within [minInterval, maxInterval] by total time after every sequence of *)
(* field edits and preset selections.                                      *)
C1_IntervalWithinBounds ==
    (BoundsOrdered /\ initInRange) => WithinBounds(interval)

(* a preset above the maximum was selected and the application holds the   *)
(* maximum                                                                 *)
C1_Witness ==
    /\ BoundsOrdered /\ initInRange
    /\ last.kind = "Preset" /\ last.key = "2"
    /\ Emitted = {maxInterval}
    /\ interval = maxInterval

-----------------------------------------------------------------------------
(* C2: getNextValidDuration(D, min, max) returns min when total(D) <       *)
(* total(min), else max when total(D) > total(max), else D itself; a D     *)
(* whose total equals a bound's total is returned unchanged.               *)
C2_ThreeWayClamp ==
    fnResult.fn = "getNextValidDuration" =>
        LET d  == durationToMs(interval)
            lo == durationToMs(minInterval)
            hi == durationToMs(maxInterval)
        IN  /\ d < lo => fnResult.out = minInterval
            /\ (d >= lo /\ d > hi) => fnResult.out = maxInterval
            /\ (d >= lo /\ d <= hi) => fnResult.out = interval

(* D has the total of the minimum, is another value, and comes back as D *)
C2_Witness ==
    /\ fnResult.fn = "getNextValidDuration"
    /\ durationToMs(interval) = durationToMs(minInterval)
    /\ interval # minInterval
    /\ durationToMs(interval) < durationToMs(maxInterval)
    /\ fnResult.out = interval

-----------------------------------------------------------------------------
(* C3: with schema-valid bounds, total(minInterval) <= total(maxInterval)  *)
(* and an initial Duration within them, the value of every displayed field *)
(* f lies within [getMinValueForField(f), getMaxValueForField(f)] computed *)
(* from the current Duration.                                              *)
C3_FieldValuesWithinFieldBounds ==
    (BoundsSchemaValid /\ BoundsOrdered /\ initInRange) =>
        \A f \in FieldSet :
            show(f) => (min(f) <= value(f) /\ value(f) <= max(f))

(* an edit of the hours was clamped to the minimum, whose minutes and      *)
(* seconds are then the lower bounds of their fields                       *)
C3_Witness ==
    /\ BoundsSchemaValid /\ BoundsOrdered /\ initInRange /\ AllShown
    /\ last.kind = "ArrowDown" /\ last.field = "hours"
    /\ Rendered("seconds")
    /\ interval = minInterval
    /\ calls[1].arg.value = 0
    /\ min("minutes") = 59 /\ value("minutes") = 59
    /\ min("seconds") = 58 /\ value("seconds") = 58

-----------------------------------------------------------------------------
(* C4: the hours bounds are minInterval.hours and maxInterval.hours        *)
(* whatever the other fields hold; the minutes maximum is                  *)
(* maxInterval.minutes when the current hours equal maxInterval.hours and  *)
(* 59 otherwise; the seconds maximum is maxInterval.seconds when the       *)
(* current hours and minutes both equal those of maxInterval and 59        *)
(* otherwise; the minimums are the same with minInterval and 0.            *)
C4_CascadingFieldBounds ==
    fnResult.fn = "fieldBounds" =>
        LET f  == fnResult.field
            lo == fnResult.out.min
            hi == fnResult.out.max
        IN  /\ f = "hours" => (lo = minInterval.hours /\ hi = maxInterval.hours)
            /\ f = "minutes" =>
                 /\ (interval.hours = maxInterval.hours => hi = maxInterval.minutes)
                 /\ (interval.hours # maxInterval.hours => hi = 59)
                 /\ (interval.hours = minInterval.hours => lo = minInterval.minutes)
                 /\ (interval.hours # minInterval.hours => lo = 0)
            /\ f = "seconds" =>
                 /\ (interval.hours = maxInterval.hours
                       /\ interval.minutes = maxInterval.minutes)
                      => hi = maxInterval.seconds
                 /\ ~(interval.hours = maxInterval.hours
                       /\ interval.minutes = maxInterval.minutes)
                      => hi = 59
                 /\ (interval.hours = minInterval.hours
                       /\ interval.minutes = minInterval.minutes)
                      => lo = minInterval.seconds
                 /\ ~(interval.hours = minInterval.hours
                       /\ interval.minutes = minInterval.minutes)
                      => lo = 0

(* the hours are at the maximum's, the minutes are not: seconds go to 59 *)
C4_Witness ==
    /\ fnResult.fn = "fieldBounds" /\ fnResult.field = "seconds"
    /\ interval.hours = maxInterval.hours
    /\ interval.minutes # maxInterval.minutes
    /\ maxInterval.seconds = 0
    /\ fnResult.out.max = 59

-----------------------------------------------------------------------------
(* More vocabulary *)

ShownAfter(f) == { g \in FieldSet : show(g) /\ FieldIndex(g) > FieldIndex(f) }

(* the next shown field after f in the order hours, minutes, seconds *)
NextShown(f) ==
    CHOOSE g \in ShownAfter(f) :
        \A h \in ShownAfter(f) : FieldIndex(g) <= FieldIndex(h)

IsLastShown(f) == ShownAfter(f) = {}

(* v's display with its leftmost digit dropped and the digit d appended *)
DropLeftAppend(v, d) ==
    IF v < 100 THEN (v % 10) * 10 + d ELSE (v % 100) * 10 + d

(* <<>> or <<P>>: the duration of the preset a key selects *)
PresetDuration(key) ==
    LET p == find(presets, key) IN IF p = <<>> THEN <<>> ELSE p[1].duration

CallsNamed(cs, fn) == { i \in 1..Len(cs) : cs[i].fn = fn }

EmittedBy(cs) == { cs[i].arg : i \in CallsNamed(cs, "setInterval") }

-----------------------------------------------------------------------------
(* C5: in every show/hide configuration, every Duration passed to the      *)
(* change callback has each hidden field equal to 0, whatever the prior    *)
(* Duration, the bounds and the edit or preset behind the emission.        *)
C5_HiddenFieldsAreZero ==
    \A d \in Emitted : \A f \in FieldSet : ~show(f) => d[f] = 0

-----------------------------------------------------------------------------
(* C6: a digit key d in a field with value v and bounds [min, max], with c *)
(* the display of v without its leftmost digit followed by d: if c is in   *)
(* [min, max] the field commits c and focus advances to the next field     *)
(* unless the field is the last one; else if d is in [min, max] the field  *)
(* commits d and focus stays; else nothing is committed and focus stays.   *)
DigitContract(f, key) ==
    LET v == value(f)
        d == DigitValue(key)
        c == DropLeftAppend(v, d)
    IN  IF min(f) <= c /\ c <= max(f)
        THEN /\ Committed(calls', f, c)
             /\ focus' = IF IsLastShown(f) THEN focus ELSE NextShown(f)
        ELSE IF min(f) <= d /\ d <= max(f)
        THEN /\ Committed(calls', f, d)
             /\ focus' = focus
        ELSE /\ calls' = <<>>
             /\ interval' = interval
             /\ focus' = focus

C6_DigitEntry ==
    [][\A f \in FieldSet : \A key \in DigitKeys :
          (last'.kind = "Digit" /\ last'.field = f /\ KeyDigit(f, key))
            => DigitContract(f, key)]_vars

-----------------------------------------------------------------------------
(* C7: ArrowUp in a field with value v and bounds [min, max] commits v+1,  *)
(* or min when v+1 > max; ArrowDown commits v-1, or max when v-1 < min;    *)
(* neither changes the focused field, wrap included.                       *)
C7_ArrowUpDown ==
    [][\A f \in FieldSet :
          /\ (last'.kind = "ArrowUp" /\ last'.field = f /\ KeyArrowUp(f)) =>
               /\ Committed(calls', f,
                            IF value(f) + 1 > max(f) THEN min(f) ELSE value(f) + 1)
               /\ focus' = focus
          /\ (last'.kind = "ArrowDown" /\ last'.field = f /\ KeyArrowDown(f)) =>
               /\ Committed(calls', f,
                            IF value(f) - 1 < min(f) THEN max(f) ELSE value(f) - 1)
               /\ focus' = focus]_vars

(* ArrowUp committed 0 in the seconds, whose values are never negative: the *)
(* value wrapped from its maximum, and the focus is still on the seconds    *)
C7_Witness ==
    /\ last.kind = "ArrowUp" /\ last.field = "seconds"
    /\ Committed(calls, "seconds", 0)
    /\ interval.seconds = 0
    /\ interval.minutes = maxInterval.minutes
    /\ maxInterval.seconds = 30
    /\ focus = "seconds"

-----------------------------------------------------------------------------
(* C8: when the candidate of a full-Duration update, after the hidden      *)
(* fields are zeroed, fails the schema, the change callback is invoked     *)
(* with the Duration that was current before the update, neither clamped   *)
(* nor zeroed, and the application's Duration does not change.             *)
ReemitsPrevious ==
    /\ Cardinality(CallsNamed(calls', "setInterval")) = 1
    /\ EmittedBy(calls') = {interval}
    /\ interval' = interval

C8_RejectedUpdateReemitsPrevious ==
    [][/\ \A key \in PresetKeys :
            ( /\ last'.kind = "Preset" /\ last'.key = key
              /\ PresetChange(key)
              /\ PresetDuration(key) # <<>>
              /\ ~durationSchema(adjustedInterval(PresetDuration(key)[1])) )
            => ReemitsPrevious
       /\ \A f \in FieldSet :
            ( /\ last'.kind \in {"ArrowUp", "ArrowDown", "Digit", "InputChange"}
              /\ last'.field = f
              /\ calls' # <<>>
              /\ calls'[1].fn = "onChange"
              /\ ~durationSchema(adjustedInterval(
                      [interval EXCEPT ![f] = calls'[1].arg.value])) )
            => ReemitsPrevious]_vars

(* the preset with minutes = 60 was selected with the minutes shown; the   *)
(* Duration emitted is the one held before, which is outside the bounds    *)
(* and has a nonzero hidden field                                          *)
C8_Witness ==
    /\ last.kind = "Preset" /\ last.key = "bad"
    /\ showMinutes /\ ~showSeconds
    /\ Emitted = {interval}
    /\ interval.seconds # 0
    /\ BoundsOrdered /\ ~WithinBounds(interval)

-----------------------------------------------------------------------------
(* C9: a preset selection invokes the preset-selection callback exactly    *)
(* once, with the selected key, whether the preset carries a duration or   *)
(* not and also when the key matches no preset; a duration carried goes    *)
(* through the validate-and-clamp path of a field edit and is emitted      *)
(* through the change callback before the preset-selection callback.       *)
PresetContract(key) ==
    LET P      == PresetDuration(key)
        notes  == CallsNamed(calls', "onPresetChange")
        emits  == CallsNamed(calls', "setInterval")
        passed == adjustedInterval(P[1])
    IN  /\ hasOnPresetChange =>
             /\ Cardinality(notes) = 1
             /\ \A i \in notes : calls'[i].arg = key
        /\ P # <<>> =>
             /\ Cardinality(emits) = 1
             /\ EmittedBy(calls') =
                  { IF durationSchema(passed)
                    THEN getNextValidDuration(passed, minInterval, maxInterval)
                    ELSE interval }
             /\ \A i \in emits : \A j \in notes : i < j

C9_PresetSelection ==
    [][\A key \in PresetKeys :
          (last'.kind = "Preset" /\ last'.key = key /\ PresetChange(key))
            => PresetContract(key)]_vars

(* a preset above the maximum was selected: the maximum was emitted, then  *)
(* the application was told the key                                        *)
C9_Witness ==
    /\ last.kind = "Preset" /\ last.key = "2" /\ hasOnPresetChange
    /\ Len(calls) = 2
    /\ calls[1].fn = "setInterval" /\ calls[1].arg = maxInterval
    /\ calls[2].fn = "onPresetChange" /\ calls[2].arg = "2"
    /\ selectedPreset = "2"

-----------------------------------------------------------------------------
(* C10, as stated: selecting a preset other than custom that carries a     *)
(* (schema-valid) duration P with total(minInterval) <= total(P) <=        *)
(* total(maxInterval) emits exactly P.                                     *)
InRangePreset(key) ==
    /\ key # "custom"
    /\ PresetDuration(key) # <<>>
    /\ durationSchema(PresetDuration(key)[1])
    /\ WithinBounds(PresetDuration(key)[1])

C10_InRangePresetEmittedUnchanged ==
    (last.kind = "Preset" /\ InRangePreset(last.key)) =>
        (Emitted = {PresetDuration(last.key)[1]}
           /\ interval = PresetDuration(last.key)[1])

(* C10, amended: selecting a preset other than custom that carries a       *)
(* schema-valid duration P within the bounds, whose component is 0 for     *)
(* every hidden field, emits exactly P.                                    *)
C10_InRangeShownPresetEmittedUnchanged ==
    ( /\ last.kind = "Preset"
      /\ InRangePreset(last.key)
      /\ \A f \in FieldSet : ~show(f) => PresetDuration(last.key)[1][f] = 0 )
    => (Emitted = {PresetDuration(last.key)[1]}
          /\ interval = PresetDuration(last.key)[1])

(* the preset 0:59:59 was selected with every field shown and is emitted *)
C10_Witness ==
    /\ last.kind = "Preset" /\ last.key = "m"
    /\ AllShown /\ InRangePreset("m")
    /\ Emitted = {Dur(0, 59, 59)}
    /\ interval = Dur(0, 59, 59)

-----------------------------------------------------------------------------
(* C11, as stated: selecting the preset whose value is "custom" never      *)
(* invokes the duration-change callback; it invokes only the               *)
(* preset-selection callback, and the Duration is left unchanged.          *)
OnlyNotifies(key) ==
    /\ CallsNamed(calls', "setInterval") = {}
    /\ \A i \in 1..Len(calls') :
          calls'[i].fn = "onPresetChange" /\ calls'[i].arg = key
    /\ interval' = interval

C11_CustomNeverEmits ==
    [][(last'.kind = "Preset" /\ last'.key = "custom"
          /\ find(presets, "custom") # <<>> /\ PresetChange("custom"))
        => OnlyNotifies("custom")]_vars

(* C11, amended: selecting the preset whose value is "custom", when that   *)
(* preset carries no duration, never invokes the duration-change callback; *)
(* it invokes only the preset-selection callback, and the Duration is left *)
(* unchanged.                                                              *)
C11_CustomWithoutDurationNeverEmits ==
    [][(last'.kind = "Preset" /\ last'.key = "custom"
          /\ find(presets, "custom") # <<>>
          /\ PresetDuration("custom") = <<>> /\ PresetChange("custom"))
        => OnlyNotifies("custom")]_vars

(* custom, carrying no duration, was selected while a field had been       *)
(* edited: the application was told the key and nothing else happened      *)
C11_Witness ==
    /\ last.kind = "Preset" /\ last.key = "custom"
    /\ presets = DemoPresets /\ hasOnPresetChange
    /\ calls = <<Call("onPresetChange", "custom")>>
    /\ selectedPreset = "custom"
    /\ interval \notin InitIntervals

-----------------------------------------------------------------------------
(* C12, as stated: in every state the raw fields are shown exactly when    *)
(* the preset list is empty, or the selected preset key is "custom", or    *)
(* the preset list is non-empty and no preset is selected; with a          *)
(* non-empty preset list and any other selected preset they are not shown. *)
C12_FieldsShownAlsoWhenNothingSelected ==
    \A f \in FieldSet :
        Rendered(f) <=>
            /\ show(f)
            /\ \/ Len(presets) = 0
               \/ selectedPreset = "custom"
               \/ Len(presets) > 0 /\ selectedPreset = NoPreset

(* C12, amended: in every state the raw fields are shown exactly when the  *)
(* preset list is empty or the selected preset key is "custom"; with a     *)
(* non-empty preset list and no preset selected, or any other preset       *)
(* selected, they are not shown.                                           *)
C12_FieldsShownWhenCustomOrNoPresets ==
    \A f \in FieldSet :
        Rendered(f) <=>
            /\ show(f)
            /\ \/ Len(presets) = 0
               \/ selectedPreset = "custom"

(* a preset was clicked in an application that keeps no selection: the     *)
(* list is non-empty, nothing is selected and no field is mounted          *)
C12_Witness ==
    /\ last.kind = "Preset"
    /\ Len(presets) > 0 /\ selectedPreset = NoPreset
    /\ AllShown
    /\ \A f \in FieldSet : ~Rendered(f)

-----------------------------------------------------------------------------
(* C13: for every show/hide configuration, a Right-arrow keystroke on a    *)
(* shown field that is not the last shown field moves focus to the next    *)
(* shown field, and on the last shown field leaves focus where it is; a    *)
(* Left-arrow keystroke on a shown field that is not the first shown field *)
(* moves focus to the previous shown field; neither keystroke changes the  *)
(* Duration or triggers the change callback.                               *)
ShownBefore(f) == { g \in FieldSet : show(g) /\ FieldIndex(g) < FieldIndex(f) }

PrevShown(f) ==
    CHOOSE g \in ShownBefore(f) :
        \A k \in ShownBefore(f) : FieldIndex(k) <= FieldIndex(g)

IsFirstShown(f) == ShownBefore(f) = {}

NoDurationChange ==
    /\ interval' = interval
    /\ CallsNamed(calls', "setInterval") = {}
    /\ CallsNamed(calls', "onChange") = {}

C13_ArrowFocusNavigation ==
    [][\A f \in FieldSet :
          /\ (last'.kind = "ArrowRight" /\ last'.field = f /\ KeyArrowRight(f))
                => /\ focus' = IF IsLastShown(f) THEN f ELSE NextShown(f)
                   /\ NoDurationChange
          /\ (last'.kind = "ArrowLeft" /\ last'.field = f /\ KeyArrowLeft(f))
                => /\ ~IsFirstShown(f) => focus' = PrevShown(f)
                   /\ NoDurationChange]_vars

-----------------------------------------------------------------------------
(* C14: a direct replacement of a field's value commits the parsed integer *)
(* n only when min <= n <= max for that field; otherwise, or when the      *)
(* input does not parse as an integer, the change callback is not invoked  *)
(* and the Duration and the focus are unchanged.                           *)
ReplacementContract(f, text) ==
    LET n == parseInt(text)
    IN  /\ focus' = focus
        /\ IF ~n.nan /\ min(f) <= n.val /\ n.val <= max(f)
           THEN /\ Committed(calls', f, n.val)
                /\ Cardinality(CallsNamed(calls', "setInterval")) = 1
           ELSE /\ calls' = <<>>
                /\ interval' = interval

C14_DirectReplacement ==
    [][\A f \in FieldSet : \A text \in Texts :
          (last'.kind = "InputChange" /\ last'.field = f /\ InputChange(f, text))
            => ReplacementContract(f, text)]_vars

(* a text was typed into the seconds field, whose range is 58..59 here,    *)
(* and nothing was committed: every text offered is out of range or not a  *)
(* number                                                                  *)
C14_Witness ==
    /\ last.kind = "InputChange" /\ last.field = "seconds"
    /\ Rendered("seconds") /\ focus = "seconds"
    /\ min("seconds") = 58 /\ max("seconds") = 59
    /\ calls = <<>>

-----------------------------------------------------------------------------
(* C15: rolling two-digit entry. For a field with value in 0..99 and       *)
(* fixed bounds [min, max], if a digit keystroke d1 commits a value (by    *)
(* either stage) and the next digit keystroke d2 is handled by the same    *)
(* field with 10*d1 + d2 within [min, max], then the field's committed     *)
(* value after the second keystroke is 10*d1 + d2.                         *)
RollsFrom(f, d2) ==
    /\ fnResult.fn = "digit" /\ fnResult.field = f
    /\ fnResult.out.committed
    /\ fnResult.out.value \in 0..99 /\ value(f) \in 0..99
    /\ fnResult.out.min = min(f) /\ fnResult.out.max = max(f)
    /\ min(f) <= 10 * fnResult.out.digit + d2
    /\ 10 * fnResult.out.digit + d2 <= max(f)

C15_RollingTwoDigitEntry ==
    [][\A f \in FieldSet : \A key \in DigitKeys :
          (fnResult'.field = f /\ fnResult'.out.digit = DigitValue(key)
             /\ RollsFrom(f, DigitValue(key)) /\ RollDigit(f, key))
            => Committed(calls', f, 10 * fnResult.out.digit + DigitValue(key))]_vars

-----------------------------------------------------------------------------
(* C16: with all three fields shown, schema-valid bounds with min <= max   *)
(* and a current Duration within them, when a field commits a value x      *)
(* within that field's current [fieldMin, fieldMax], the emitted Duration  *)
(* has the edited field equal to x and every higher-significance field     *)
(* unchanged; only lower-significance fields may be altered by the clamp.  *)
EditableState ==
    /\ BoundsSchemaValid /\ BoundsOrdered
    /\ durationSchema(interval) /\ WithinBounds(interval)

EditKinds == {"ArrowUp", "ArrowDown", "Digit", "InputChange"}

C16_CommitKeepsEditedAndHigherFields ==
    [][\A f \in FieldSet :
          ( /\ last'.kind \in EditKinds /\ last'.field = f
            /\ Len(calls') >= 2 /\ calls'[1].fn = "onChange"
            /\ AllShown /\ EditableState
            /\ min(f) <= calls'[1].arg.value /\ calls'[1].arg.value <= max(f) )
          => /\ calls'[2].fn = "setInterval"
             /\ calls'[2].arg = interval'
             /\ interval'[f] = calls'[1].arg.value
             /\ \A g \in FieldSet :
                   FieldIndex(g) < FieldIndex(f) => interval'[g] = interval[g]]_vars

(* ArrowUp took the minutes from 0 to 1 at 0:00:xx under the maximum       *)
(* 0:01:30 with more than 30 seconds: the maximum was emitted, minutes 1   *)
(* as committed, hours as before, the seconds cut to 30                    *)
C16_Witness ==
    /\ last.kind = "ArrowUp" /\ last.field = "minutes"
    /\ AllShown /\ initInRange
    /\ maxInterval = Dur(0, 1, 30)
    /\ Committed(calls, "minutes", 1)
    /\ calls[2].arg = Dur(0, 1, 30)
    /\ interval = Dur(0, 1, 30)

-----------------------------------------------------------------------------
(* C17: under schema-valid bounds with min <= max and an initial           *)
(* schema-valid in-range Duration, no keyboard edit (Up/Down, digit) or    *)
(* direct replacement ever produces a candidate that fails the schema; the *)
(* rejection path is reachable only through a preset whose duration is     *)
(* schema-invalid.                                                         *)
Candidate(f, x) == [interval EXCEPT ![f] = x]

C17_EditsNeverFailTheSchema ==
    [][(BoundsSchemaValid /\ BoundsOrdered /\ initInRange) =>
          /\ \A f \in FieldSet :
                ( /\ last'.kind \in EditKinds /\ last'.field = f
                  /\ Len(calls') >= 2 /\ calls'[1].fn = "onChange" )
                => /\ durationSchema(Candidate(f, calls'[1].arg.value))
                   /\ durationSchema(
                         adjustedInterval(Candidate(f, calls'[1].arg.value)))
          /\ \A key \in PresetKeys :
                ( /\ last'.kind = "Preset" /\ last'.key = key
                  /\ PresetDuration(key) # <<>>
                  /\ ~durationSchema(adjustedInterval(PresetDuration(key)[1])) )
                => ~durationSchema(PresetDuration(key)[1])]_vars

(* ArrowDown on seconds 0, range 0..59: the field wrapped to 59, where a   *)
(* plain decrement would have submitted -1                                 *)
C17_Witness ==
    /\ last.kind = "ArrowDown" /\ last.field = "seconds"
    /\ BoundsSchemaValid /\ BoundsOrdered /\ initInRange
    /\ minInterval = Dur(0, 0, 0) /\ interval.minutes = 0
    /\ Committed(calls, "seconds", 59)
    /\ interval.seconds = 59

-----------------------------------------------------------------------------
(* C18: under schema-valid bounds with min <= max, in every state          *)
(* reachable from an in-range Duration each field's computed bounds are    *)
(* non-empty and ordered, getMinValueForField(f) <= getMaxValueForField(f) *)
(* for all three fields, so an arrow-key wrap lands on a value inside the  *)
(* field's range.                                                          *)
C18_FieldBoundsOrdered ==
    (BoundsSchemaValid /\ BoundsOrdered /\ initInRange) =>
        \A f \in FieldSet : min(f) <= max(f)

(* ArrowDown wrapped the seconds from 0 to the field maximum 30 at 0:01:xx *)
(* under the bounds 0:00:00 .. 0:01:30                                     *)
C18_Witness ==
    /\ last.kind = "ArrowDown" /\ last.field = "seconds"
    /\ BoundsSchemaValid /\ BoundsOrdered /\ initInRange
    /\ Committed(calls, "seconds", 30)
    /\ interval = Dur(0, 1, 30)
    /\ min("seconds") = 0 /\ max("seconds") = 30

-----------------------------------------------------------------------------
(* C19: with all fields shown and schema-valid bounds with min <= max,     *)
(* every schema-valid Duration T with total(min) <= total(T) <= total(max) *)
(* is reachable from every in-range Duration by some finite sequence of    *)
(* Up/Down-arrow keystrokes and Left/Right focus moves. The sequence is    *)
(* the one the steering user types: from every in-range start and for     *)
(* every in-range target it ends with the target as the Duration.          *)
C19_EveryInRangeDurationReachable ==
    <>(interval = fnResult.out)

(* the target 0:01:00 was reached by an ArrowUp that wrapped the seconds   *)
(* from 30, the field maximum next to 0:01:30, to 0                        *)
C19_Witness ==
    /\ fnResult.fn = "target" /\ fnResult.out = Dur(0, 1, 0)
    /\ last.kind = "ArrowUp" /\ last.field = "seconds"
    /\ Committed(calls, "seconds", 0)
    /\ interval = Dur(0, 1, 0)

====
